---- MODULE Spec2Model ----
(***************************************************************************)
(* Model of src/fetchPRsGraphQL.js: the pull-request analytics run.        *)
(*                                                                         *)
(* main() is one sequential coroutine.  It is suspended only at `await',   *)
(* so every action below is the code that runs from one resumption to the  *)
(* next await (or to the end of main): the prompt and the first request,   *)
(* the arrival or failure of a page, the arrival or failure of a detail.   *)
(*                                                                         *)
(* Time is counted in seconds since the Unix epoch (the API's timestamps   *)
(* have second resolution).  JavaScript Numbers are modelled as exact      *)
(* rationals [n, d]; toFixed rounds half away from zero.                   *)
(***************************************************************************)
EXTENDS Integers, Sequences, FiniteSets, TLC

VARIABLES
    pc,                 \* where main() is suspended
    now, period, outputFormat, since,
    repoIdx,            \* position of the for..of loop over repositories
    hasNextPage, endCursor, pullRequests,      \* locals of fetchAllPullRequests
    filteredPRs, prIdx,                        \* the loop over filteredPRs
    totalMergeTime, maxMergeTime, minMergeTime,
    totalLinesChanged, maxLinesChanged, minLinesChanged,
    prDetails,
    results,            \* the results array of main
    console,            \* what console.log has printed, in order
    files,              \* what fs.writeFileSync has written
    calls,              \* every request handed to graphqlWithAuth, in order
    served,             \* per repository, the pages the endpoint has answered
    fetched             \* per repository, what fetchAllPullRequests returned

vars == << pc, now, period, outputFormat, since, repoIdx,
           hasNextPage, endCursor, pullRequests, filteredPRs, prIdx,
           totalMergeTime, maxMergeTime, minMergeTime,
           totalLinesChanged, maxLinesChanged, minLinesChanged,
           prDetails, results, console, files, calls, served, fetched >>

----------------------------------------------------------------------------
(* Bounds of the model *)

MaxPRs == 3         \* pull requests the endpoint serves in one run

----------------------------------------------------------------------------
(* Values *)

NULL == "null"

\* a timestamp field of a response: JsonNull, or the ISO 8601 string of an
\* instant, written Iso(t) for the instant t seconds after the epoch
JsonNull == << >>
Iso(t) == << t >>

\* Number.MAX_VALUE: a finite Number above every value the run computes
MAX_VALUE == 1000000

repositories ==
    << [owner |-> "SAP", repo |-> "terraform-exporter-btp"],
       [owner |-> "SAP", repo |-> "terraform-provider-btp"] >>

RepoName(i) == << repositories[i].owner, "/", repositories[i].repo >>

Day == 24 * 60 * 60

\* the instant at which the run may start: 2024-03-31T12:00:00Z, with the
\* calendar fields Date reads from it (months count from 0)
NowChoices ==
    { [time |-> 1711886400, year |-> 2024, month |-> 2] }

PeriodInputs == { "last_week", "last_month", "foo" }
FormatInputs == { "console", "json", "csv", "foo" }

\* what the endpoint may hold: a pull request merged 2024-03-24T12:00:00Z,
\* 120 min after its creation; one merged 2024-03-02T18:00:00Z, 100 s after
\* its creation; and an entry without a merge time
NodeChoices ==
    { [title |-> "a", createdAt |-> Iso(1711274400), mergedAt |-> Iso(1711281600)],
      [title |-> "c", createdAt |-> Iso(1709402300), mergedAt |-> Iso(1709402400)],
      [title |-> "d", createdAt |-> Iso(1709402300), mergedAt |-> JsonNull] }

DetailChoices ==
    { [additions |-> 1, deletions |-> 0],
      [additions |-> 1, deletions |-> 1] }

\* the opaque cursor of the k-th pull request of a repository
Cursor(k) == << "cursor", k >>

----------------------------------------------------------------------------
(* Numbers *)

RECURSIVE GCD(_, _)
GCD(a, b) == IF b = 0 THEN a ELSE GCD(b, a % b)

Abs(x) == IF x < 0 THEN -x ELSE x

Norm(r) ==
    LET g == GCD(Abs(r.n), r.d)
    IN  [n |-> r.n \div g, d |-> r.d \div g]

Rat(i) == [n |-> i, d |-> 1]

RAdd(a, b) == Norm([n |-> a.n * b.d + b.n * a.d, d |-> a.d * b.d])
RSub(a, b) == Norm([n |-> a.n * b.d - b.n * a.d, d |-> a.d * b.d])
RDiv(a, k) == Norm([n |-> a.n, d |-> a.d * k])
RLe(a, b) == a.n * b.d <= b.n * a.d
MathMax(a, b) == IF RLe(b, a) THEN a ELSE b
MathMin(a, b) == IF RLe(a, b) THEN a ELSE b

Pow10(k) == IF k = 0 THEN 1 ELSE IF k = 1 THEN 10 ELSE 100

\* Number.prototype.toFixed: the decimal string with `digits' fraction
\* digits nearest to x, as its count of units of 10^-digits
toFixed(x, digits) ==
    LET m == Abs(x.n)
        u == (2 * m * Pow10(digits) + x.d) \div (2 * x.d)
    IN  [units |-> IF x.n < 0 THEN -u ELSE u, digits |-> digits]

parseFloat(s) == Norm([n |-> s.units, d |-> Pow10(s.digits)])

----------------------------------------------------------------------------
(* Dates *)

\* new Date(v).getTime(): a timestamp string gives its instant, null gives 0
NewDate(v) == IF v = JsonNull THEN 0 ELSE v[1]

DaysInMonth(year, month) ==
    IF month = 1
    THEN (IF year % 4 = 0 /\ (year % 100 # 0 \/ year % 400 = 0) THEN 29 ELSE 28)
    ELSE IF month \in {3, 5, 8, 10} THEN 30 ELSE 31

\* since.setDate(since.getDate() - 7)
SetDateMinus7(d) == d.time - 7 * Day

\* since.setMonth(since.getMonth() - 1): same day number in the month before,
\* days past its end running over into the month after it
SetMonthMinus1(d) ==
    LET pm == IF d.month = 0 THEN 11 ELSE d.month - 1
        py == IF d.month = 0 THEN d.year - 1 ELSE d.year
    IN  d.time - DaysInMonth(py, pm) * Day

calculateTimeDifferenceInMinutes(start, end) ==
    Norm([n |-> NewDate(end) - NewDate(start), d |-> 60])

----------------------------------------------------------------------------
(* The endpoint *)

RECURSIVE Flatten(_)
Flatten(pages) ==
    IF pages = << >> THEN << >>
    ELSE pages[1].edges \o Flatten(Tail(pages))

ServedIn(srv) == Len(Flatten(srv[1])) + Len(Flatten(srv[2]))

\* the pages the endpoint can answer next for repository i: pull requests
\* are numbered in the order the repository serves them, none is merged
\* after the run has started, the end cursor of a page is the cursor of its
\* last edge, and a page is empty only when the repository has no pull
\* request at all
Pages(srv, i, t) ==
    LET base == Len(Flatten(srv[i]))
        ok == { c \in NodeChoices : NewDate(c.mergedAt) <= t.time }
        sizes == { n \in 0..MaxPRs : /\ ServedIn(srv) + n <= MaxPRs
                                     /\ n = 0 => srv[i] = << >> }
    IN  UNION { { [edges |-> [k \in 1..n |->
                                [number |-> base + k, title |-> f[k].title,
                                 createdAt |-> f[k].createdAt,
                                 mergedAt |-> f[k].mergedAt]],
                   hasNextPage |-> h,
                   endCursor |-> IF n = 0 THEN JsonNull ELSE Cursor(base + n)] :
                  f \in [1..n -> ok],
                  h \in IF n = 0 THEN {FALSE} ELSE BOOLEAN } :
                n \in sizes }

----------------------------------------------------------------------------
(* main, as a function from the state at one resumption to the state at    *)
(* the next suspension                                                     *)

State ==
    [pc |-> pc, now |-> now, period |-> period, outputFormat |-> outputFormat,
     since |-> since, repoIdx |-> repoIdx,
     hasNextPage |-> hasNextPage, endCursor |-> endCursor,
     pullRequests |-> pullRequests, filteredPRs |-> filteredPRs,
     prIdx |-> prIdx,
     totalMergeTime |-> totalMergeTime, maxMergeTime |-> maxMergeTime,
     minMergeTime |-> minMergeTime,
     totalLinesChanged |-> totalLinesChanged,
     maxLinesChanged |-> maxLinesChanged,
     minLinesChanged |-> minLinesChanged,
     prDetails |-> prDetails, results |-> results, console |-> console,
     files |-> files, calls |-> calls, served |-> served,
     fetched |-> fetched]

Becomes(s) ==
    /\ pc' = s.pc /\ now' = s.now /\ period' = s.period
    /\ outputFormat' = s.outputFormat /\ since' = s.since
    /\ repoIdx' = s.repoIdx
    /\ hasNextPage' = s.hasNextPage /\ endCursor' = s.endCursor
    /\ pullRequests' = s.pullRequests /\ filteredPRs' = s.filteredPRs
    /\ prIdx' = s.prIdx
    /\ totalMergeTime' = s.totalMergeTime /\ maxMergeTime' = s.maxMergeTime
    /\ minMergeTime' = s.minMergeTime
    /\ totalLinesChanged' = s.totalLinesChanged
    /\ maxLinesChanged' = s.maxLinesChanged
    /\ minLinesChanged' = s.minLinesChanged
    /\ prDetails' = s.prDetails /\ results' = s.results
    /\ console' = s.console /\ files' = s.files
    /\ calls' = s.calls /\ served' = s.served /\ fetched' = s.fetched

log(s, line) == [s EXCEPT !.console = Append(@, line)]

\* graphqlWithAuth(query, variables) is called and main suspends on it
graphqlWithAuth(s, kind, arg) ==
    [s EXCEPT !.calls = Append(@, [kind |-> kind, repo |-> s.repoIdx,
                                   arg |-> arg, outcome |-> "pending"]),
              !.pc = kind]

\* the pending request is answered or fails
Settle(s, outcome) ==
    [s EXCEPT !.calls[Len(s.calls)].outcome = outcome]

csvHeaders ==
    << "repository_name", "starttime", "endtime", "number_of_prs",
       "average_time_to_merge", "min_time_to_merge", "max_time_to_merge",
       "average_lines_changed", "min_lines_changed", "max_lines_Changed" >>

csvRow(result) ==
    << result.Repository, result.startDate, result.endDate,
       Len(result.PRs), result.averageTimeToMerge, result.minTimeToMerge,
       result.maxTimeToMerge, result.averageLinesChanged,
       result.minLinesChanged, result.maxLinesChanged >>

writeFileSync(s, name, content) ==
    [s EXCEPT !.files = [f \in DOMAIN s.files \cup {name} |->
                            IF f = name THEN content ELSE s.files[f]]]

\* WriteOutput with the csv rows alone
WriteOutput_NoHeader(s) ==
    LET t == [s EXCEPT !.pc = "done"]
    IN  IF s.outputFormat = "json"
        THEN log(writeFileSync(t, "output.json", [json |-> s.results]),
                 [kind |-> "written", file |-> "output.json"])
        ELSE IF s.outputFormat = "csv"
        THEN log(writeFileSync(t, "output.csv",
                      [k \in 1..Len(s.results) |-> csvRow(s.results[k])]),
                 [kind |-> "written", file |-> "output.csv"])
        ELSE t

\* lines 205-242: after the loop over the repositories
WriteOutput(s) ==
    LET t == [s EXCEPT !.pc = "done"]
    IN  IF s.outputFormat = "json"
        THEN log(writeFileSync(t, "output.json", [json |-> s.results]),
                 [kind |-> "written", file |-> "output.json"])
        ELSE IF s.outputFormat = "csv"
        THEN log(writeFileSync(t, "output.csv",
                      << csvHeaders >> \o
                      [k \in 1..Len(s.results) |-> csvRow(s.results[k])]),
                 [kind |-> "written", file |-> "output.csv"])
        ELSE t

\* the while loop of fetchAllPullRequests asks for the next page
RequestPage(s) == graphqlWithAuth(s, "page", s.endCursor)

\* lines 124-128: the next iteration of the loop over the repositories, up
\* to its first request; past the last repository, the output
StartRepo(s, i) ==
    IF i > Len(repositories)
    THEN WriteOutput([s EXCEPT !.repoIdx = i])
    ELSE RequestPage(
           log([s EXCEPT !.repoIdx = i, !.hasNextPage = TRUE,
                         !.endCursor = JsonNull, !.pullRequests = << >>],
               [kind |-> "fetching", repo |-> RepoName(i)]))

\* Catch as if the try enclosed the whole loop
Catch_LeavesLoop(s) ==
    StartRepo(log(s, [kind |-> "error", repo |-> RepoName(s.repoIdx)]),
              Len(repositories) + 1)

\* Catch that goes through the failed repository once more
Catch_Retries(s) ==
    StartRepo(log(s, [kind |-> "error", repo |-> RepoName(s.repoIdx)]),
              s.repoIdx)

\* lines 200-202
Catch(s) ==
    StartRepo(log(s, [kind |-> "error", repo |-> RepoName(s.repoIdx)]),
              s.repoIdx + 1)

\* toISOString().split('T')[0]: the calendar day of an instant, as its
\* count of days since 1970-01-01
IsoDate(t) == t \div Day

\* Report with the deviations taken between the rounded figures
Report_RoundedFirst(s) ==
    LET n == Len(s.filteredPRs)
        averageMergeTime ==
            IF n > 0 THEN RDiv(s.totalMergeTime, n) ELSE Rat(0)
        averageLinesChanged ==
            IF n > 0 THEN RDiv(s.totalLinesChanged, n) ELSE Rat(0)
        average == parseFloat(toFixed(averageMergeTime, 2))
        minimum == parseFloat(toFixed(s.minMergeTime, 2))
        maximum == parseFloat(toFixed(s.maxMergeTime, 2))
    IN  [Repository |-> RepoName(s.repoIdx),
         startDate |-> IsoDate(s.since),
         endDate |-> IsoDate(s.now.time),
         PRs |-> s.prDetails,
         averageTimeToMerge |-> average,
         minTimeToMerge |-> minimum,
         maxTimeToMerge |-> maximum,
         deviationMinFromAverage |->
             parseFloat(toFixed(RSub(average, minimum), 2)),
         deviationMaxFromAverage |->
             parseFloat(toFixed(RSub(maximum, average), 2)),
         averageLinesChanged |-> parseFloat(toFixed(averageLinesChanged, 0)),
         maxLinesChanged |-> s.maxLinesChanged,
         minLinesChanged |-> s.minLinesChanged]

\* lines 164-180: the report of the repository
Report(s) ==
    LET n == Len(s.filteredPRs)
        averageMergeTime ==
            IF n > 0 THEN RDiv(s.totalMergeTime, n) ELSE Rat(0)
        averageLinesChanged ==
            IF n > 0 THEN RDiv(s.totalLinesChanged, n) ELSE Rat(0)
    IN  [Repository |-> RepoName(s.repoIdx),
         startDate |-> IsoDate(s.since),
         endDate |-> IsoDate(s.now.time),
         PRs |-> s.prDetails,
         averageTimeToMerge |-> parseFloat(toFixed(averageMergeTime, 2)),
         minTimeToMerge |-> parseFloat(toFixed(s.minMergeTime, 2)),
         maxTimeToMerge |-> parseFloat(toFixed(s.maxMergeTime, 2)),
         deviationMinFromAverage |->
             parseFloat(toFixed(RSub(averageMergeTime, s.minMergeTime), 2)),
         deviationMaxFromAverage |->
             parseFloat(toFixed(RSub(s.maxMergeTime, averageMergeTime), 2)),
         averageLinesChanged |-> parseFloat(toFixed(averageLinesChanged, 0)),
         maxLinesChanged |-> s.maxLinesChanged,
         minLinesChanged |-> s.minLinesChanged]

\* lines 183-198: the report as the console shows it
Printed(s) ==
    LET n == Len(s.filteredPRs)
        averageMergeTime ==
            IF n > 0 THEN RDiv(s.totalMergeTime, n) ELSE Rat(0)
        averageLinesChanged ==
            IF n > 0 THEN RDiv(s.totalLinesChanged, n) ELSE Rat(0)
    IN  [kind |-> "report", repo |-> RepoName(s.repoIdx),
         PRs |-> s.prDetails,
         average |-> toFixed(averageMergeTime, 2),
         minimum |-> toFixed(s.minMergeTime, 2),
         maximum |-> toFixed(s.maxMergeTime, 2),
         deviationMin |-> toFixed(RSub(averageMergeTime, s.minMergeTime), 2),
         deviationMax |-> toFixed(RSub(s.maxMergeTime, averageMergeTime), 2),
         averageLines |-> toFixed(averageLinesChanged, 0),
         minimumLines |-> s.minLinesChanged,
         maximumLines |-> s.maxLinesChanged]

\* lines 164-203: the report is pushed and, in console mode, printed; then
\* on to the next repository
FinishRepo(s) ==
    LET pushed == [s EXCEPT !.results = Append(@, Report(s))]
    IN  StartRepo(IF s.outputFormat = "console" THEN log(pushed, Printed(s))
                  ELSE pushed,
                  s.repoIdx + 1)

\* NextPR with Math.min on the line of the maximum
NextPR_MinForMax(s) ==
    IF s.prIdx > Len(s.filteredPRs)
    THEN FinishRepo(s)
    ELSE LET pr == s.filteredPRs[s.prIdx]
             timeToMerge ==
                 calculateTimeDifferenceInMinutes(pr.createdAt, pr.mergedAt)
         IN  graphqlWithAuth(
               [s EXCEPT !.totalMergeTime = RAdd(@, timeToMerge),
                         !.maxMergeTime = MathMin(@, timeToMerge),
                         !.minMergeTime = MathMin(@, timeToMerge)],
               "detail", pr.number)

\* lines 141-147: the head of the loop over filteredPRs, up to the detail
\* request of the pull request at prIdx; past the last one, the report
NextPR(s) ==
    IF s.prIdx > Len(s.filteredPRs)
    THEN FinishRepo(s)
    ELSE LET pr == s.filteredPRs[s.prIdx]
             timeToMerge ==
                 calculateTimeDifferenceInMinutes(pr.createdAt, pr.mergedAt)
         IN  graphqlWithAuth(
               [s EXCEPT !.totalMergeTime = RAdd(@, timeToMerge),
                         !.maxMergeTime = MathMax(@, timeToMerge),
                         !.minMergeTime = MathMin(@, timeToMerge)],
               "detail", pr.number)

\* Qualifies with > for >=
Qualifies_Strict(pr, start) == NewDate(pr.mergedAt) > start

\* Qualifies with an absent merge time let through
Qualifies_NullPasses(pr, start) ==
    pr.mergedAt = JsonNull \/ NewDate(pr.mergedAt) >= start

\* line 130
Qualifies(pr, start) == NewDate(pr.mergedAt) >= start

\* lines 128-139: fetchAllPullRequests has returned
Aggregate(s) ==
    NextPR([s EXCEPT
              !.fetched = [i \in DOMAIN s.fetched \cup {s.repoIdx} |->
                             IF i = s.repoIdx THEN s.pullRequests
                             ELSE s.fetched[i]],
              !.filteredPRs =
                  SelectSeq(s.pullRequests, LAMBDA pr : Qualifies(pr, s.since)),
              !.prIdx = 1,
              !.totalMergeTime = Rat(0),
              !.maxMergeTime = Rat(0),
              !.minMergeTime = Rat(MAX_VALUE),
              !.totalLinesChanged = Rat(0),
              !.maxLinesChanged = Rat(0),
              !.minLinesChanged = Rat(MAX_VALUE),
              !.prDetails = << >>])

\* OnPage with the cursor left as it was
OnPage_StaleCursor(s, page) ==
    LET t == [Settle(s, "ok") EXCEPT
                !.served[s.repoIdx] = Append(@, page),
                !.pullRequests = @ \o page.edges,
                !.hasNextPage = page.hasNextPage]
    IN  IF t.hasNextPage THEN RequestPage(t) ELSE Aggregate(t)

\* lines 48-56: a page has arrived
OnPage(s, page) ==
    LET t == [Settle(s, "ok") EXCEPT
                !.served[s.repoIdx] = Append(@, page),
                !.pullRequests = @ \o page.edges,
                !.hasNextPage = page.hasNextPage,
                !.endCursor = page.endCursor]
    IN  IF t.hasNextPage THEN RequestPage(t) ELSE Aggregate(t)

\* lines 77-83 and 147-162: a detail has arrived
OnDetail(s, detail) ==
    LET pr == s.filteredPRs[s.prIdx]
        timeToMerge ==
            calculateTimeDifferenceInMinutes(pr.createdAt, pr.mergedAt)
        additions == detail.additions
        deletions == detail.deletions
        linesChanged == RAdd(Rat(additions), Rat(deletions))
    IN  NextPR([Settle(s, "ok") EXCEPT
                  !.totalLinesChanged = RAdd(@, linesChanged),
                  !.maxLinesChanged = MathMax(@, linesChanged),
                  !.minLinesChanged = MathMin(@, linesChanged),
                  !.prDetails = Append(@,
                      [number |-> pr.number, title |-> pr.title,
                       timeToMerge |-> parseFloat(toFixed(timeToMerge, 2)),
                       linesChanged |-> [added |-> additions,
                                         deleted |-> deletions]]),
                  !.prIdx = @ + 1])

\* Since with the month in the fallback branch
Since_FallbackMonth(d, p) ==
    IF p = "last_week" THEN SetDateMinus7(d)
    ELSE SetMonthMinus1(d)

\* lines 110-118
Since(d, p) ==
    IF p = "last_week" THEN SetDateMinus7(d)
    ELSE IF p = "last_month" THEN SetMonthMinus1(d)
    ELSE SetDateMinus7(d)

\* lines 101-124: the prompts, the window, and into the loop
OnStart(s, d, p, f) ==
    LET t == [s EXCEPT !.now = d, !.period = p, !.outputFormat = f,
                       !.since = Since(d, p)]
    IN  StartRepo(IF p \notin {"last_week", "last_month"}
                  THEN log(t, [kind |-> "notice", text |-> "Invalid input. Defaulting to last_week."])
                  ELSE t,
                  1)

----------------------------------------------------------------------------
(* The state machine *)

Init ==
    /\ pc = "prompt"
    /\ now = NULL /\ period = NULL /\ outputFormat = NULL /\ since = NULL
    /\ repoIdx = 0
    /\ hasNextPage = FALSE /\ endCursor = JsonNull /\ pullRequests = << >>
    /\ filteredPRs = << >> /\ prIdx = 0
    /\ totalMergeTime = Rat(0) /\ maxMergeTime = Rat(0)
    /\ minMergeTime = Rat(MAX_VALUE)
    /\ totalLinesChanged = Rat(0) /\ maxLinesChanged = Rat(0)
    /\ minLinesChanged = Rat(MAX_VALUE)
    /\ prDetails = << >>
    /\ results = << >>
    /\ console = << >>
    /\ files = << >>
    /\ calls = << >>
    /\ served = [i \in 1..Len(repositories) |-> << >>]
    /\ fetched = << >>

\* main() starts: the two prompts are answered
Prompt ==
    /\ pc = "prompt"
    /\ \E d \in NowChoices, p \in PeriodInputs, f \in FormatInputs :
         Becomes(OnStart(State, d, p, f))

\* the endpoint answers the pending page request
PageArrives ==
    /\ pc = "page"
    /\ \E page \in Pages(served, repoIdx, now) : Becomes(OnPage(State, page))

\* the pending page request fails; the error reaches the catch of main
PageFails ==
    /\ pc = "page"
    /\ Becomes(Catch(Settle(State, "error")))

\* the endpoint answers the pending detail request
DetailArrives ==
    /\ pc = "detail"
    /\ \E detail \in DetailChoices : Becomes(OnDetail(State, detail))

\* the pending detail request fails; the error reaches the catch of main
DetailFails ==
    /\ pc = "detail"
    /\ Becomes(Catch(Settle(State, "error")))

Next ==
    \/ Prompt
    \/ PageArrives
    \/ PageFails
    \/ DetailArrives
    \/ DetailFails

Spec == Init /\ [][Next]_vars

----------------------------------------------------------------------------
(* What the properties speak about *)

Repos == 1..Len(repositories)

RepoOf(report) == CHOOSE i \in Repos : RepoName(i) = report.Repository

Reported(i) == \E k \in 1..Len(results) : results[k].Repository = RepoName(i)

PageCalls(i) ==
    SelectSeq(calls, LAMBDA c : c.kind = "page" /\ c.repo = i)

DetailCalls(i) ==
    SelectSeq(calls, LAMBDA c : c.kind = "detail" /\ c.repo = i)

Failed(i) ==
    \E k \in 1..Len(calls) : calls[k].repo = i /\ calls[k].outcome = "error"

Logged(i, kind) ==
    \E k \in 1..Len(console) :
        console[k].kind = kind /\ console[k].repo = RepoName(i)

RECURSIVE EdgeCount(_)
EdgeCount(pages) ==
    IF pages = << >> THEN 0
    ELSE Len(pages[1].edges) + EdgeCount(Tail(pages))

\* the pull request of repository i that the endpoint served under a number
Node(i, number) ==
    LET all == Flatten(served[i])
    IN  all[CHOOSE k \in 1..Len(all) : all[k].number = number]

MergedBefore(pr, start) == pr.mergedAt # JsonNull /\ pr.mergedAt[1] < start
MergedSince(pr, start) == pr.mergedAt # JsonNull /\ pr.mergedAt[1] >= start

\* the served pull requests of repository i merged inside the window
InWindow(i) ==
    SelectSeq(Flatten(served[i]), LAMBDA pr : MergedSince(pr, since))

Numbers(prs) == [k \in 1..Len(prs) |-> prs[k].number]

Minutes(pr) == [n |-> pr.mergedAt[1] - pr.createdAt[1], d |-> 60]

RECURSIVE Sum(_)
Sum(xs) == IF xs = << >> THEN Rat(0) ELSE RAdd(xs[1], Sum(Tail(xs)))

Least(xs) == CHOOSE x \in { xs[k] : k \in 1..Len(xs) } :
                 \A k \in 1..Len(xs) : RLe(x, xs[k])

Greatest(xs) == CHOOSE x \in { xs[k] : k \in 1..Len(xs) } :
                    \A k \in 1..Len(xs) : RLe(xs[k], x)

Round(x, digits) == parseFloat(toFixed(x, digits))

----------------------------------------------------------------------------
(* Properties *)

\* C1: what fetchAllPullRequests returns is the concatenation, in served
\* order, of the pages up to and including the first one with hasNextPage
\* false; one request was made per page, the first with a null cursor and
\* each later one with the end cursor of the page before, and none after
\* the page with hasNextPage false.
C1_FetchAllPages ==
    \A i \in DOMAIN fetched :
        LET pages == served[i]
            reqs == PageCalls(i)
        IN  /\ fetched[i] = Flatten(pages)
            /\ Len(fetched[i]) = EdgeCount(pages)
            /\ Len(pages) >= 1
            /\ ~pages[Len(pages)].hasNextPage
            /\ \A k \in 1..(Len(pages) - 1) : pages[k].hasNextPage
            /\ Len(reqs) = Len(pages)
            /\ reqs[1].arg = JsonNull
            /\ \A k \in 2..Len(reqs) : reqs[k].arg = pages[k - 1].endCursor

C1_Witness ==
    \E i \in DOMAIN fetched :
        /\ Len(served[i]) = 2
        /\ Len(served[i][1].edges) = 2
        /\ Len(fetched[i]) = 3
        /\ pc = "done"

\* C2: when a request of one repository has failed, the error is on the
\* console, every later repository has been asked for its pages, and each
\* later repository none of whose requests failed has its report in results.
C2_FailureIsolated ==
    pc = "done" =>
        \A i \in Repos :
            Failed(i) =>
                /\ Logged(i, "error")
                /\ \A j \in Repos :
                       j > i => /\ Len(PageCalls(j)) >= 1
                                /\ ~Failed(j) => Reported(j)

C2_Witness ==
    /\ pc = "done"
    /\ Failed(1)
    /\ ~Failed(2)
    /\ Len(results) = 1
    /\ Len(results[1].PRs) >= 1
    /\ RepoOf(results[1]) = 2

\* C3: in a report with at least one qualifying pull request the minimum is
\* at most the average and the average at most the maximum, for the time to
\* merge and for the lines changed.
C3_MinAvgMax ==
    \A k \in 1..Len(results) :
        LET r == results[k]
        IN  Len(r.PRs) > 0 =>
                /\ RLe(r.minTimeToMerge, r.averageTimeToMerge)
                /\ RLe(r.averageTimeToMerge, r.maxTimeToMerge)
                /\ RLe(r.minLinesChanged, r.averageLinesChanged)
                /\ RLe(r.averageLinesChanged, r.maxLinesChanged)

C3_Witness ==
    \E k \in 1..Len(results) :
        LET r == results[k]
        IN  /\ Len(r.PRs) >= 2
            /\ ~RLe(r.averageTimeToMerge, r.minTimeToMerge)
            /\ ~RLe(r.maxTimeToMerge, r.averageTimeToMerge)
            /\ ~RLe(r.maxLinesChanged, r.minLinesChanged)

\* C4: a report built from no qualifying pull request has average, minimum
\* and maximum 0 for the time to merge and for the lines changed, and both
\* deviations 0.
C4_EmptyReportIsZero ==
    \A k \in 1..Len(results) :
        LET r == results[k]
        IN  Len(r.PRs) = 0 =>
                /\ r.averageTimeToMerge = Rat(0)
                /\ r.minTimeToMerge = Rat(0)
                /\ r.maxTimeToMerge = Rat(0)
                /\ r.averageLinesChanged = Rat(0)
                /\ r.minLinesChanged = Rat(0)
                /\ r.maxLinesChanged = Rat(0)
                /\ r.deviationMinFromAverage = Rat(0)
                /\ r.deviationMaxFromAverage = Rat(0)

\* C5: in a report with at least one qualifying pull request,
\* deviationMinFromAverage is the average time to merge less the minimum,
\* deviationMaxFromAverage the maximum less the average, each rounded to 2
\* decimals, and neither is negative.
C5_Deviations ==
    \A k \in 1..Len(results) :
        LET r == results[k]
            prs == InWindow(RepoOf(r))
            times == [j \in 1..Len(prs) |-> Minutes(prs[j])]
            average == RDiv(Sum(times), Len(times))
        IN  Len(r.PRs) > 0 =>
                /\ r.deviationMinFromAverage =
                       Round(RSub(average, Least(times)), 2)
                /\ r.deviationMaxFromAverage =
                       Round(RSub(Greatest(times), average), 2)
                /\ RLe(Rat(0), r.deviationMinFromAverage)
                /\ RLe(Rat(0), r.deviationMaxFromAverage)

C5_Witness ==
    \E k \in 1..Len(results) :
        LET r == results[k]
        IN  /\ Len(r.PRs) >= 2
            /\ r.deviationMinFromAverage # Rat(0)
            /\ r.deviationMaxFromAverage # Rat(0)
            /\ r.deviationMinFromAverage #
                   RSub(r.averageTimeToMerge, r.minTimeToMerge)

\* C6: no pull request merged before the window start is in a report's
\* list, in its aggregates, or the subject of a detail request; the pull
\* requests merged at or after the window start are the list, in fetched
\* order.
C6_WindowFilter ==
    /\ \A k \in 1..Len(calls) :
           calls[k].kind = "detail" =>
               ~MergedBefore(Node(calls[k].repo, calls[k].arg), since)
    /\ \A k \in 1..Len(results) :
           LET r == results[k]
               i == RepoOf(r)
               prs == InWindow(i)
               times == [j \in 1..Len(prs) |-> Minutes(prs[j])]
           IN  /\ \A j \in 1..Len(r.PRs) :
                      ~MergedBefore(Node(i, r.PRs[j].number), since)
               /\ Numbers(r.PRs) = Numbers(prs)
               /\ Len(prs) > 0 =>
                      /\ r.averageTimeToMerge =
                             Round(RDiv(Sum(times), Len(times)), 2)
                      /\ r.minTimeToMerge = Round(Least(times), 2)
                      /\ r.maxTimeToMerge = Round(Greatest(times), 2)

C6_Witness ==
    \E k \in 1..Len(results) :
        LET i == RepoOf(results[k])
            all == Flatten(served[i])
        IN  /\ Len(all) = 3
            /\ MergedBefore(all[2], since)
            /\ MergedSince(all[1], since) /\ all[1].mergedAt[1] = since
            /\ MergedSince(all[3], since)
            /\ Numbers(results[k].PRs) = << 1, 3 >>

\* C7: with an interval that is neither last_week nor last_month the run
\* goes on: a notice is on the console and the window starts 7 days before
\* the start of the run.
C7_IntervalFallback ==
    (pc # "prompt" /\ period \notin {"last_week", "last_month"}) =>
        /\ since = now.time - 7 * 24 * 60 * 60
        /\ \E k \in 1..Len(console) : console[k].kind = "notice"

C7_Witness ==
    /\ pc = "done"
    /\ period = "foo"
    /\ Len(results) = 2
    /\ \E k \in 1..Len(results) : Len(results[k].PRs) > 0

\* C8: with an output format that is none of console, json, csv the run
\* takes the console format: a notice is on the console and every report of
\* results is printed there.
C8_FormatFallback ==
    (pc = "done" /\ outputFormat \notin {"console", "json", "csv"}) =>
        /\ \E k \in 1..Len(console) : console[k].kind = "notice"
        /\ \A i \in Repos : Reported(i) => Logged(i, "report")

\* C9: in csv mode the file holds the header line and then one line per
\* report of results, in repository order, whose number_of_prs is the number
\* of qualifying pull requests of its repository.
C9_CsvRows ==
    (pc = "done" /\ outputFormat = "csv") =>
        /\ "output.csv" \in DOMAIN files
        /\ LET lines == files["output.csv"]
           IN  /\ Len(lines) = 1 + Len(results)
               /\ lines[1] = csvHeaders
               /\ \A k \in 1..Len(results) :
                      /\ Len(lines[k + 1]) = Len(csvHeaders)
                      /\ lines[k + 1][1] = results[k].Repository
                      /\ lines[k + 1][4] = Len(InWindow(RepoOf(results[k])))
               /\ \A j, k \in 1..Len(results) :
                      j < k => RepoOf(results[j]) < RepoOf(results[k])

C9_Witness ==
    /\ pc = "done"
    /\ outputFormat = "csv"
    /\ Len(results) = 1
    /\ Len(files["output.csv"]) = 2
    /\ files["output.csv"][2][4] = 3

\* C10: a fetched pull request without a merge time is not in the report's
\* list, not in its aggregates and not the subject of a detail request, and
\* a repository none of whose requests failed has its report all the same.
C10_NullMergedAt ==
    /\ \A k \in 1..Len(calls) :
           calls[k].kind = "detail" =>
               Node(calls[k].repo, calls[k].arg).mergedAt # JsonNull
    /\ \A k \in 1..Len(results) :
           LET r == results[k]
           IN  /\ \A j \in 1..Len(r.PRs) :
                      Node(RepoOf(r), r.PRs[j].number).mergedAt # JsonNull
               /\ RLe(Rat(0), r.minTimeToMerge)
               /\ RLe(Rat(0), r.averageTimeToMerge)
    /\ pc = "done" => \A i \in Repos : ~Failed(i) => Reported(i)

C10_Witness ==
    /\ pc = "done"
    /\ period = "last_month"
    /\ \E k \in 1..Len(results) :
           LET all == Flatten(served[RepoOf(results[k])])
           IN  /\ Len(all) = 3
               /\ all[2].mergedAt = JsonNull
               /\ Numbers(results[k].PRs) = << 1, 3 >>

\* C11: every request is made once and one at a time: only the latest
\* request can be unanswered and no request is made twice; after a failed
\* request the next request, if any, is the first page request of the next
\* repository, and no later request is for the failed repository; a
\* reported repository without a failure has had one detail request per
\* qualifying pull request, in order.
C11_NoRetrySequential ==
    /\ \A k \in 1..(Len(calls) - 1) : calls[k].outcome # "pending"
    /\ \A j, k \in 1..Len(calls) :
           (j < k /\ calls[j].repo = calls[k].repo
                  /\ calls[j].kind = calls[k].kind) =>
               calls[j].arg # calls[k].arg
    /\ \A k \in 1..Len(calls) :
           calls[k].outcome = "error" =>
               /\ k < Len(calls) =>
                      /\ calls[k + 1].kind = "page"
                      /\ calls[k + 1].repo = calls[k].repo + 1
                      /\ calls[k + 1].arg = JsonNull
               /\ \A j \in (k + 1)..Len(calls) : calls[j].repo # calls[k].repo
    /\ \A i \in Repos :
           (Reported(i) /\ ~Failed(i)) =>
               LET reqs == DetailCalls(i)
               IN  [k \in 1..Len(reqs) |-> reqs[k].arg] = Numbers(InWindow(i))

C11_Witness ==
    /\ pc = "done"
    /\ Len(DetailCalls(1)) = 2
    /\ DetailCalls(1)[1].outcome = "ok"
    /\ DetailCalls(1)[2].outcome = "error"
    /\ ~Failed(2)
    /\ Reported(2)
    /\ Len(DetailCalls(2)) = 1

====
